---- MODULE Spec2Model ----
(***************************************************************************)
(* Model of SelfImprovingAI (src/recursive-ai-code.py): the engine's       *)
(* state, its public methods and the values they return.                   *)
(*                                                                         *)
(* Numbers.  The program's floats are modelled in exact fixed point:       *)
(*   metric scores, gains              integers in units of 0.01           *)
(*   risk levels, random() draws,                                          *)
(*   scale factors                     integers in units of 0.01           *)
(*   priorities                        integers in units of 0.0001         *)
(* so 45.0 is 4500, 100.0 is 10000, 0.8 is 80, 1.2 is 120 and the priority *)
(* 0.3 is 3000.  The random draws are taken from small sets that hold the  *)
(* end points of the ranges the program draws from.                        *)
(*                                                                         *)
(* Not modelled: the improvement type tag, the generated code text, the    *)
(* test_details record and the timestamp of a history record.  No          *)
(* operation reads them.                                                   *)
(***************************************************************************)
EXTENDS Integers, Sequences, FiniteSets, TLC

VARIABLES
    generation,            \* self.generation
    performance_metrics,   \* self.performance_metrics
    baseline_performance,  \* self.baseline_performance
    improvement_history,   \* self.improvement_history
    analysis,              \* last value returned by analyze_self_performance
    improvements,          \* last value returned by generate_improvements
    draws,                 \* the random values drawn by the last test_improvements
    test_results,          \* last value returned by test_improvements
    summary,               \* last value returned by evolve_generation
    report,                \* the dict last returned by get_evolution_report, as its holder reads it
    api_calls,             \* bound: method calls made so far by a direct caller
    odd_draws,             \* bound: draws so far that differ from their round's default
    fail_cycles            \* bound: rounds so far in which the default pass draw failed

vars == << generation, performance_metrics, baseline_performance,
           improvement_history, analysis, improvements, draws, test_results,
           summary, report, api_calls, odd_draws, fail_cycles >>

(***************************************************************************)
(* Bounds of the exploration.                                              *)
(***************************************************************************)
\* Cycles that propose nothing are explored only while generation <= MaxGen.
MaxGen == 6
\* Single draws, over a whole run, that differ from their round's default.
MaxOddDraws == 1
\* Rounds, over a whole run, whose default pass draw is the failing one.
MaxFailCycles == 2
\* Method calls explored when the methods are called directly, in any order.
MaxApiCalls == 8

(***************************************************************************)
(* Program constants.                                                      *)
(***************************************************************************)
\* The dict order of performance_metrics; every other mapping inherits it.
MetricOrder ==
    << "algorithm_efficiency", "self_awareness_level", "improvement_accuracy",
       "code_quality", "learning_speed" >>

Metrics == { MetricOrder[i] : i \in 1..Len(MetricOrder) }

\* __init__: the built-in scores 45.0, 20.0, 30.0, 40.0, 35.0.
InitialMetrics ==
    [ m \in Metrics |->
        CASE m = "algorithm_efficiency" -> 4500
          [] m = "self_awareness_level" -> 2000
          [] m = "improvement_accuracy" -> 3000
          [] m = "code_quality"         -> 4000
          [] m = "learning_speed"       -> 3500 ]

\* min(100.0, ...), the clamp of apply_improvements.
MaxScore == 10000

\* data['priority'] > 0.3, in units of 0.0001.
PriorityThreshold == 3000

\* success_probability = 0.8.
SuccessProbability == 80

\* random.uniform(2, 12): the end points.
ExpectedGains == { 200, 1200 }

\* random.uniform(0.1, 0.8): the end points.
RiskLevels == { 10, 80 }

\* random.uniform(0.5, 1.2): the end points.
Scales == { 50, 120 }

\* random.random() compared with success_probability: one below, one above.
PassDraws == { 0, 90 }

\* random.random() compared with risk_level: below 0.1, and between 0.1 and 0.8.
StabilityDraws == { 5, 50 }

Min(a, b) == IF a <= b THEN a ELSE b

(***************************************************************************)
(* The random draws of one candidate.                                      *)
(***************************************************************************)
GenDraws == [ expected_gain : ExpectedGains, risk_level : RiskLevels ]

TestDraws == [ scale : Scales, pass_draw : PassDraws, stability_draw : StabilityDraws ]

CandidateDraws == [ gen : GenDraws, test : TestDraws ]

\* The default draws of a round: the largest gain, the smallest risk, a stable run.
FavourableGen == [ expected_gain |-> 1200, risk_level |-> 10 ]

FavourableTest == [ scale |-> 120, pass_draw |-> 0, stability_draw |-> 50 ]

FailingTest == [ scale |-> 120, pass_draw |-> 90, stability_draw |-> 50 ]

(***************************************************************************)
(* analyze_self_performance                                                *)
(***************************************************************************)
\* Mutant: the priority taken from the score instead of the potential.
PriorityOfScore(improvement_potential) ==
    ((10000 - improvement_potential) * 10000) \div (100 * 100)

\* priority = improvement_potential / 100.  The potential is held in units of
\* 0.01 and the priority in units of 0.0001, so the quotient is exact.
Priority(improvement_potential) == (improvement_potential * 10000) \div (100 * 100)

AnalyzeSelfPerformance(metrics) ==
    [ m \in DOMAIN metrics |->
        [ current_score         |-> metrics[m],
          improvement_potential |-> 10000 - metrics[m],
          priority              |-> Priority(10000 - metrics[m]) ] ]

(***************************************************************************)
(* generate_improvements                                                   *)
(***************************************************************************)
\* Mutant: no threshold, every metric gets a candidate.
SelectedAlways(data) == TRUE

\* Mutant: the threshold 0.1 instead of 0.3.
SelectedAboveTenth(data) == data.priority > 1000

\* if data['priority'] > 0.3
Selected(data) == data.priority > PriorityThreshold

CandidateKeys(an) == { m \in DOMAIN an : Selected(an[m]) }

\* gd gives the two draws of every selected metric.
GenerateImprovements(an, gd) ==
    [ m \in CandidateKeys(an) |->
        [ expected_gain |-> gd[m].expected_gain,
          risk_level    |-> gd[m].risk_level ] ]

(***************************************************************************)
(* test_improvements                                                       *)
(***************************************************************************)
\* Mutant: the gain withheld unless the stability check passed too.
RealizedGainIfSuccess(performance_gain, test_passed, stability_check) ==
    IF test_passed /\ stability_check THEN performance_gain ELSE 0

\* performance_gain if test_passed else 0
RealizedGain(performance_gain, test_passed, stability_check) ==
    IF test_passed THEN performance_gain ELSE 0

TestOne(improvement, td) ==
    LET performance_gain == (improvement.expected_gain * td.scale) \div 100
        test_passed      == td.pass_draw < SuccessProbability
        stability_check  == td.stability_draw > improvement.risk_level
    IN  [ success          |-> test_passed /\ stability_check,
          performance_gain |-> RealizedGain(performance_gain, test_passed, stability_check),
          stability        |-> stability_check ]

\* td gives the three draws of every candidate.
TestImprovements(imps, td) ==
    [ m \in DOMAIN imps |-> TestOne(imps[m], td[m]) ]

(***************************************************************************)
(* apply_improvements                                                      *)
(***************************************************************************)
\* Mutant: the gain subtracted.
NewValueSubtracting(old_value, improvement) == Min(MaxScore, old_value - improvement)

\* new_value = min(100.0, old_value + improvement)
NewValue(old_value, improvement) == Min(MaxScore, old_value + improvement)

\* Mutant: the record labelled with the next generation.
ImprovementRecordNextGen(gen, metric, old_value, new_value, improvement) ==
    [ generation  |-> gen + 1,
      metric      |-> metric,
      old_value   |-> old_value,
      new_value   |-> new_value,
      improvement |-> improvement ]

\* improvement_record (the timestamp is not modelled)
ImprovementRecord(gen, metric, old_value, new_value, improvement) ==
    [ generation  |-> gen,
      metric      |-> metric,
      old_value   |-> old_value,
      new_value   |-> new_value,
      improvement |-> improvement ]

\* Mutant: every tested candidate is applied.
AppliesAlways(results) == TRUE

\* if results['success']:
Applies(results) == results.success

\* The loop over test_results.items().  A dict holds a key once, so the loop
\* reads every metric's old value before any write to that metric.
AppliedMetrics(results) ==
    { m \in DOMAIN results : Applies(results[m]) }

\* self.performance_metrics[metric] = new_value, for every applied metric.
MetricsAfterApply(results, metrics) ==
    [ m \in DOMAIN metrics |->
        IF m \in AppliedMetrics(results)
        THEN NewValue(metrics[m], results[m].performance_gain)
        ELSE metrics[m] ]

\* The records the loop appends, in dict order, from position i on.
RECURSIVE RecordsFrom(_, _, _, _)
RecordsFrom(i, results, gen, metrics) ==
    IF i > Len(MetricOrder) THEN << >>
    ELSE (IF MetricOrder[i] \in AppliedMetrics(results)
          THEN << ImprovementRecord(gen, MetricOrder[i], metrics[MetricOrder[i]],
                      NewValue(metrics[MetricOrder[i]],
                               results[MetricOrder[i]].performance_gain),
                      results[MetricOrder[i]].performance_gain) >>
          ELSE << >>)
         \o RecordsFrom(i + 1, results, gen, metrics)

ApplyImprovements(results, gen, metrics, history) ==
    [ metrics |-> MetricsAfterApply(results, metrics),
      history |-> history \o RecordsFrom(1, results, gen, metrics) ]

\* Mutant: the baseline is the same object as the current mapping.
BaselineAliased(baseline, written_metrics) == written_metrics

\* __init__ stores performance_metrics.copy(): a write to the current mapping
\* does not reach the baseline.
BaselineAfterWrite(baseline, written_metrics) == baseline

(***************************************************************************)
(* evolve_generation: its return value                                     *)
(***************************************************************************)
\* Mutant: the summary counts the candidates that passed the pass draw.
SuccessCountPassed(results) ==
    Cardinality({ m \in DOMAIN results : results[m].performance_gain > 0 })

\* sum(1 for r in test_results.values() if r['success'])
SuccessCount(results) == Cardinality({ m \in DOMAIN results : results[m].success })

EvolutionSummary(gen_before_return, an, imps, results, metrics, baseline) ==
    [ generation              |-> gen_before_return - 1,
      improvements_attempted  |-> Cardinality(DOMAIN imps),
      improvements_successful |-> SuccessCount(results),
      performance_metrics     |-> metrics,
      total_improvement_from_baseline |->
          [ m \in DOMAIN metrics |-> metrics[m] - baseline[m] ] ]

\* get_evolution_report
GetEvolutionReport ==
    [ current_generation   |-> generation,
      baseline_performance |-> baseline_performance,
      current_performance  |-> performance_metrics,
      total_improvements   |-> Len(improvement_history),
      improvement_history  |-> improvement_history,
      overall_progress     |->
          [ m \in DOMAIN performance_metrics |->
              performance_metrics[m] - baseline_performance[m] ] ]

\* No value returned yet.
NoMapping == [ m \in {} |-> 0 ]

NoSummary ==
    [ generation |-> 0, improvements_attempted |-> 0, improvements_successful |-> 0,
      performance_metrics |-> NoMapping, total_improvement_from_baseline |-> NoMapping ]

NoReport ==
    [ current_generation |-> 0, baseline_performance |-> NoMapping,
      current_performance |-> NoMapping, total_improvements |-> 0,
      improvement_history |-> << >>, overall_progress |-> NoMapping ]

\* The dict get_evolution_report returns holds the engine's own
\* baseline_performance, performance_metrics and improvement_history objects,
\* not copies: a later write to them shows in the report the caller holds,
\* next to the counts computed at the call (current_generation,
\* total_improvements, overall_progress), which stay as returned.
ReportAfterWrite(held, baseline, metrics, history) ==
    IF held = NoReport
    THEN held
    ELSE [ held EXCEPT !.baseline_performance = baseline,
                       !.current_performance  = metrics,
                       !.improvement_history  = history ]

(***************************************************************************)
(* The state after construction.                                           *)
(***************************************************************************)
Init ==
    /\ generation = 1
    /\ performance_metrics = InitialMetrics
    /\ baseline_performance = InitialMetrics
    /\ improvement_history = << >>
    /\ analysis = NoMapping
    /\ improvements = NoMapping
    /\ draws = NoMapping
    /\ test_results = NoMapping
    /\ summary = NoSummary
    /\ report = NoReport
    /\ api_calls = 0
    /\ odd_draws = 0
    /\ fail_cycles = 0

(***************************************************************************)
(* The draws of one round.  Every candidate draws the round's default      *)
(* (the favourable tuple, or the one whose pass draw fails) except the     *)
(* candidates in odd, which draw what over gives them; budget is how many  *)
(* single draws may still differ from the default.                         *)
(***************************************************************************)
\* How many draws of a candidate differ from the round's default.
GenOff(g) ==
      (IF g.expected_gain # FavourableGen.expected_gain THEN 1 ELSE 0)
    + (IF g.risk_level # FavourableGen.risk_level THEN 1 ELSE 0)

TestOff(t, dflt) ==
      (IF t.scale # dflt.scale THEN 1 ELSE 0)
    + (IF t.pass_draw # dflt.pass_draw THEN 1 ELSE 0)
    + (IF t.stability_draw # dflt.stability_draw THEN 1 ELSE 0)

OffDefault(c, dflt) == GenOff(c.gen) + TestOff(c.test, dflt)

RECURSIVE OddCost(_, _, _)
OddCost(odd, over, dflt) ==
    IF odd = {} THEN 0
    ELSE LET m == CHOOSE x \in odd : TRUE
         IN  OffDefault(over[m], dflt) + OddCost(odd \ { m }, over, dflt)

OddSets(keys, budget) == { S \in SUBSET keys : Cardinality(S) <= budget }

OddTuples(dflt, budget) ==
    { c \in CandidateDraws : OffDefault(c, dflt) >= 1 /\ OffDefault(c, dflt) <= budget }

TestDefaults ==
    { FavourableTest } \cup
    (IF fail_cycles < MaxFailCycles THEN { FailingTest } ELSE {})

FailCost(keys, dflt) == IF keys # {} /\ dflt = FailingTest THEN 1 ELSE 0

(***************************************************************************)
(* evolve_generation: analyze, generate, test, apply, generation += 1,     *)
(* return the summary.                                                     *)
(***************************************************************************)
EvolveGeneration(budget) ==
    LET an   == AnalyzeSelfPerformance(performance_metrics)
        keys == CandidateKeys(an)
    IN  /\ generation <= MaxGen \/ keys # {}
        /\ \E dflt \in TestDefaults :
           \E odd \in OddSets(keys, budget) :
           \E over \in [ odd -> OddTuples(dflt, budget) ] :
              LET gd == [ m \in keys |-> IF m \in odd THEN over[m].gen ELSE FavourableGen ]
                  td == [ m \in keys |-> IF m \in odd THEN over[m].test ELSE dflt ]
                  st == ApplyImprovements(test_results', generation,
                                          performance_metrics, improvement_history)
              IN  /\ dflt = FailingTest => keys # {}
                  /\ OddCost(odd, over, dflt) <= budget
                  /\ analysis' = an
                  /\ improvements' = GenerateImprovements(analysis', gd)
                  /\ draws' = td
                  /\ test_results' = TestImprovements(improvements', draws')
                  /\ performance_metrics' = st.metrics
                  /\ improvement_history' = st.history
                  /\ baseline_performance' =
                        BaselineAfterWrite(baseline_performance, performance_metrics')
                  /\ generation' = generation + 1
                  /\ summary' = EvolutionSummary(generation', analysis', improvements',
                                                 test_results', performance_metrics',
                                                 baseline_performance')
                  /\ odd_draws' = odd_draws + OddCost(odd, over, dflt)
                  /\ fail_cycles' = fail_cycles + FailCost(keys, dflt)
                  /\ report' = ReportAfterWrite(report, baseline_performance',
                                                 performance_metrics',
                                                 improvement_history')

\* One cycle of run_evolution_cycles.
Evolve ==
    /\ EvolveGeneration(MaxOddDraws - odd_draws)
    /\ UNCHANGED api_calls

(***************************************************************************)
(* The methods called directly.  The caller passes on the value the        *)
(* previous method returned; every candidate draws the round's default.    *)
(***************************************************************************)
CallCounted ==
    /\ api_calls < MaxApiCalls
    /\ api_calls' = api_calls + 1

CallEvolve ==
    /\ CallCounted
    /\ EvolveGeneration(0)

Analyze ==
    /\ CallCounted
    /\ analysis' = AnalyzeSelfPerformance(performance_metrics)
    /\ UNCHANGED << generation, performance_metrics, baseline_performance,
                    improvement_history, improvements, draws, test_results,
                    summary, report, odd_draws, fail_cycles >>

Generate ==
    /\ CallCounted
    /\ improvements' =
          GenerateImprovements(analysis,
                               [ m \in CandidateKeys(analysis) |-> FavourableGen ])
    /\ UNCHANGED << generation, performance_metrics, baseline_performance,
                    improvement_history, analysis, draws, test_results,
                    summary, report, odd_draws, fail_cycles >>

Test ==
    /\ CallCounted
    /\ \E dflt \in TestDefaults :
          LET td == [ m \in DOMAIN improvements |-> dflt ]
          IN  /\ dflt = FailingTest => DOMAIN improvements # {}
              /\ draws' = td
              /\ test_results' = TestImprovements(improvements, td)
              /\ fail_cycles' = fail_cycles + FailCost(DOMAIN improvements, dflt)
    /\ UNCHANGED << generation, performance_metrics, baseline_performance,
                    improvement_history, analysis, improvements,
                    summary, report, odd_draws >>

Apply ==
    LET st == ApplyImprovements(test_results, generation,
                                performance_metrics, improvement_history)
    IN  /\ CallCounted
        /\ performance_metrics' = st.metrics
        /\ improvement_history' = st.history
        /\ baseline_performance' =
              BaselineAfterWrite(baseline_performance, performance_metrics')
        /\ report' = ReportAfterWrite(report, baseline_performance',
                                       performance_metrics', improvement_history')
        /\ UNCHANGED << generation, analysis, improvements, draws, test_results,
                        summary, odd_draws, fail_cycles >>

Report ==
    /\ CallCounted
    /\ report' = GetEvolutionReport
    /\ UNCHANGED << generation, performance_metrics, baseline_performance,
                    improvement_history, analysis, improvements, draws,
                    test_results, summary, odd_draws, fail_cycles >>

(***************************************************************************)
(* Specifications.                                                         *)
(***************************************************************************)
\* The driver: run_evolution_cycles calls evolve_generation and nothing else.
Next == Evolve

Spec == Init /\ [][Next]_vars

\* Any caller of the class: every public method, in any order.
NextApi == CallEvolve \/ Analyze \/ Generate \/ Test \/ Apply \/ Report

SpecApi == Init /\ [][NextApi]_vars

\* A cycle in which metric m, still below 70 and so proposed, is improved.
Improves(m) ==
    /\ performance_metrics[m] < 7000
    /\ Next
    /\ performance_metrics'[m] > performance_metrics[m]

\* The driver's cycles, every proposed metric's test succeeding again and again.
LiveSpec == Spec /\ \A m \in Metrics : SF_vars(Improves(m))

(***************************************************************************)
(* Properties.                                                             *)
(***************************************************************************)
\* The records a step appends to the history.
Appended(i) == i > Len(improvement_history) /\ i <= Len(improvement_history')

HistoryExtended ==
    /\ Len(improvement_history') >= Len(improvement_history)
    /\ SubSeq(improvement_history', 1, Len(improvement_history)) = improvement_history

AllAtLeast70 == \A m \in Metrics : performance_metrics[m] >= 7000

\* C1: after any number of evolve_generation cycles, whatever the draws, every
\* current metric value lies in [0, 100].
MetricsWithinRange ==
    \A m \in Metrics :
        performance_metrics[m] >= 0 /\ performance_metrics[m] <= 10000

\* C1 witness: cycles have applied improvements and a metric has passed 80.
MetricsWithinRangeWitness ==
    /\ generation >= 4
    /\ improvement_history # << >>
    /\ \E m \in Metrics : performance_metrics[m] >= 8000

\* C2: the baseline mapping is the copy of the initial metrics taken at
\* construction, in every state, whichever methods have been called.
BaselineNeverChanges ==
    /\ baseline_performance = InitialMetrics
    /\ GetEvolutionReport.baseline_performance = InitialMetrics

\* C2 witness: every method has been called and the current mapping has moved
\* away from the baseline in every metric.
BaselineNeverChangesWitness ==
    /\ \A m \in Metrics : performance_metrics[m] > baseline_performance[m]
    /\ generation > 1
    /\ analysis # NoMapping
    /\ test_results # NoMapping
    /\ report # NoReport
    /\ Len(improvement_history) > summary.improvements_successful

\* C3: each cycle extends the history, as a prefix, by exactly the
\* improvements_successful count of its summary, and the report's
\* total_improvements is the new length; so after K cycles the length is the
\* sum of the K counts.
HistoryGrowsBySuccessCount ==
    /\ [](Cardinality({ i \in 1..Len(improvement_history) :
                          improvement_history[i].generation = summary.generation })
            = summary.improvements_successful)
    /\ [][ /\ HistoryExtended
           /\ Len(improvement_history') =
                 Len(improvement_history) + summary'.improvements_successful
           /\ GetEvolutionReport'.total_improvements =
                 GetEvolutionReport.total_improvements + summary'.improvements_successful
         ]_vars

\* C3 witness: a cycle with some but not all candidates successful, after
\* earlier cycles that added records of their own.
HistoryGrowsBySuccessCountWitness ==
    /\ summary.improvements_successful > 0
    /\ summary.improvements_successful < summary.improvements_attempted
    /\ Len(improvement_history) > summary.improvements_successful

\* C4: every history record's recorded improvement is new_value - old_value,
\* so a successful improvement of a metric at 100 records 0.
RecordedDeltaIsDifference ==
    \A i \in 1..Len(improvement_history) :
        LET r == improvement_history[i]
        IN  /\ r.new_value = Min(10000, r.old_value + r.improvement)
            /\ r.improvement = r.new_value - r.old_value

\* C5: a metric whose priority at analysis time is <= 0.3 (its score >= 70)
\* is in neither the cycle's candidates nor its test results; every metric
\* with priority > 0.3 is in both.
LowPriorityNotProposed ==
    \A m \in DOMAIN analysis :
        /\ analysis[m].priority <= 3000 <=> analysis[m].current_score >= 7000
        /\ analysis[m].priority <= 3000 =>
              m \notin DOMAIN improvements /\ m \notin DOMAIN test_results
        /\ analysis[m].priority > 3000 =>
              m \in DOMAIN improvements /\ m \in DOMAIN test_results

\* C5 witness: a cycle that skipped one metric and proposed another.
LowPriorityNotProposedWitness ==
    /\ \E m \in DOMAIN analysis :
          analysis[m].priority <= 3000 /\ m \notin DOMAIN improvements
    /\ \E m \in DOMAIN analysis :
          analysis[m].priority > 3000 /\ m \in DOMAIN improvements

\* C6: the generation counter is 1 at construction; only evolve_generation
\* changes it, by exactly 1, returning the old value in its summary; every
\* record appended carries the counter's value at that time, so the labels in
\* the history never decrease.
GenerationCountsCycles ==
    /\ generation = 1
    /\ [](summary.generation = generation - 1)
    /\ [](\A i, j \in 1..Len(improvement_history) :
             i <= j => improvement_history[i].generation
                          <= improvement_history[j].generation)
    /\ [][ /\ \/ generation' = generation /\ summary' = summary
              \/ generation' = generation + 1 /\ summary'.generation = generation
           /\ HistoryExtended
           /\ \A i \in 1..Len(improvement_history') :
                 Appended(i) => improvement_history'[i].generation = generation
         ]_vars

\* C6 witness: two cycles and a direct apply have left records of
\* generations 1, 2 and 3.
GenerationCountsCyclesWitness ==
    /\ generation = 3
    /\ summary.generation = 2
    /\ \A g \in 1..3 : \E i \in 1..Len(improvement_history) :
          improvement_history[i].generation = g

\* C7: a metric whose test did not succeed, or that was not proposed, keeps
\* its value and gets no record in that cycle; while every pass draw of every
\* cycle has failed, the current mapping is the baseline and the report's
\* total_improvements is 0, and the counter advances all the same.
FailedTestsChangeNothing ==
    /\ []((fail_cycles = generation - 1 /\ odd_draws = 0) =>
             /\ performance_metrics = baseline_performance
             /\ GetEvolutionReport.total_improvements = 0)
    /\ [][ /\ generation' = generation + 1
           /\ \A m \in Metrics :
                 (m \notin DOMAIN test_results' \/ ~test_results'[m].success) =>
                    /\ performance_metrics'[m] = performance_metrics[m]
                    /\ \A i \in 1..Len(improvement_history') :
                          Appended(i) => improvement_history'[i].metric # m
         ]_vars

\* C7 witness: two cycles in which every candidate failed its pass draw.
FailedTestsChangeNothingWitness ==
    /\ generation = 3
    /\ fail_cycles = 2
    /\ odd_draws = 0
    /\ DOMAIN test_results = Metrics
    /\ \A m \in Metrics : draws[m].pass_draw >= 80 /\ ~test_results[m].success

\* C8: success is (pass draw succeeded) and (stability draw above the risk
\* level); the gain is expected_gain * scale when the pass draw succeeded and
\* 0 otherwise; so an unsuccessful result carries a positive gain exactly
\* when the pass draw succeeded and the stability draw did not, a successful
\* one always carries a positive gain, and the gain of an unsuccessful result
\* is not added to the metric.
SuccessAndGainFromDraws ==
    \A m \in DOMAIN test_results :
        LET r      == test_results[m]
            passed == draws[m].pass_draw < 80
            stable == draws[m].stability_draw > improvements[m].risk_level
        IN  /\ r.success = (passed /\ stable)
            /\ r.stability = stable
            /\ r.performance_gain =
                  (IF passed
                   THEN (improvements[m].expected_gain * draws[m].scale) \div 100
                   ELSE 0)
            /\ (~r.success /\ r.performance_gain > 0) <=> (passed /\ ~stable)
            /\ r.success => r.performance_gain > 0
            /\ ~r.success => performance_metrics[m] = analysis[m].current_score

\* C8 witness: a result with success = false and a positive gain.
SuccessAndGainFromDrawsWitness ==
    \E m \in DOMAIN test_results :
        /\ ~test_results[m].success
        /\ test_results[m].performance_gain > 0
        /\ draws[m].pass_draw < 80

\* C9: driven by evolve_generation alone, every metric stays below 84.4:
\* a record's old value is below 70 and its gain at most 14.4, the clamp
\* changes nothing, no metric reaches 100 and new_value = old_value +
\* improvement in every record.
MetricsStayBelowClamp ==
    /\ \A m \in Metrics :
          performance_metrics[m] < 8440 /\ performance_metrics[m] # 10000
    /\ \A i \in 1..Len(improvement_history) :
          LET r == improvement_history[i]
          IN  /\ r.old_value < 7000
              /\ r.improvement <= 1440
              /\ r.new_value = r.old_value + r.improvement

\* C9 witness: a metric has come within 0.4 of the bound.
MetricsStayBelowClampWitness ==
    \E m \in Metrics : performance_metrics[m] > 8400

\* C10: no metric ever decreases; a metric at 70 or more is never changed
\* again; once all five are there a cycle proposes nothing and changes only
\* the generation counter; and, each candidate's test succeeding again and
\* again, that state is reached and kept.
MetricsRiseUntilFrozen ==
    /\ [][ /\ \A m \in Metrics :
                 /\ performance_metrics'[m] >= performance_metrics[m]
                 /\ performance_metrics[m] >= 7000 =>
                       performance_metrics'[m] = performance_metrics[m]
                 /\ performance_metrics'[m] > performance_metrics[m] =>
                       performance_metrics'[m] >= performance_metrics[m] + 100
           /\ AllAtLeast70 =>
                 /\ improvements' = NoMapping
                 /\ summary'.improvements_attempted = 0
                 /\ performance_metrics' = performance_metrics
                 /\ improvement_history' = improvement_history
                 /\ generation' = generation + 1
         ]_vars
    /\ <>[]AllAtLeast70

\* C10 witness: a cycle run after all five metrics had reached 70.
MetricsRiseUntilFrozenWitness ==
    /\ AllAtLeast70
    /\ analysis # NoMapping
    /\ \A m \in Metrics : analysis[m].current_score >= 7000
    /\ summary.improvements_attempted = 0
    /\ Len(improvement_history) >= 15

====
